---- MODULE Spec2Model ----
(***************************************************************************)
(* Model of sms/handlers.py: the SMS handler factory get_handler, the two  *)
(* provider mixins (SMSCRU, SMSTRAFFIC) and the two logging mixins         *)
(* (SimpleLoggingMixin, SQLiteLoggingMixin).                               *)
(*                                                                         *)
(* A Python dict is an insertion-ordered sequence of <<key, value>> pairs  *)
(* with distinct keys.  Every value is a string; Python's None is the      *)
(* reserved string None, and a number is written as its decimal text.      *)
(***************************************************************************)
EXTENDS Integers, Sequences, FiniteSets, TLC

\* ------------------------------------------------------------------ bounds
MaxKeys == 1          \* most keys in a user_data dict
MaxLog == 1           \* most records (rows or lines) written through send
MaxRows == 2          \* most records written through direct _log calls

\* ----------------------------------------------------------- python values
None == "<None>"

NoDict == [given |-> FALSE, d |-> <<>>]          \* an argument left at None
Dict(d) == [given |-> TRUE, d |-> d]

\* ------------------------------------------------------------------- dicts
Has(d, k) == \E i \in DOMAIN d : d[i][1] = k

Get(d, k, default) ==
    IF Has(d, k) THEN d[CHOOSE i \in DOMAIN d : d[i][1] = k][2] ELSE default

Put(d, k, v) ==
    IF Has(d, k)
    THEN [i \in DOMAIN d |-> IF d[i][1] = k THEN <<k, v>> ELSE d[i]]
    ELSE Append(d, <<k, v>>)

RECURSIVE Update(_, _)
Update(d, e) ==
    IF e = <<>> THEN d
    ELSE Update(Put(d, Head(e)[1], Head(e)[2]), Tail(e))

DictKeys(d) == {d[i][1] : i \in DOMAIN d}

\* str(dict): "{'k': 'v', 'k2': 'v2'}"
RECURSIVE ReprItems(_)
ReprItems(d) ==
    IF d = <<>> THEN ""
    ELSE "'" \o Head(d)[1] \o "': '" \o Head(d)[2] \o "'"
         \o (IF Tail(d) = <<>> THEN "" ELSE ", " \o ReprItems(Tail(d)))

Repr(d) == "{" \o ReprItems(d) \o "}"

\* ---------------------------------------------------------- response body
\* A response body is a text: either not JSON at all, or a JSON object
\* written as its members in order (a member name may repeat).
Text(members) == [json |-> TRUE, members |-> members]
NotJson == [json |-> FALSE, members |-> <<>>]

\* json.loads / Response.json(): a later member replaces an earlier one
JsonLoads(body) == Update(<<>>, body.members)

\* ---------------------------------------------------------------- loggers
\* what one _log call did: the exception it raised ("" when it returned)
\* and the records it wrote
Raised(e) == [exc |-> e, out |-> <<>>]
Wrote(r) == [exc |-> "", out |-> <<r>>]

\* SimpleLoggingMixin._log: the line handed to logger.info
SimpleLog(result) ==
    LET status == Get(result, "status", None) IN
    IF status = None THEN Raised("ValueError")
    ELSE IF status = "ok" THEN
        IF ~Has(result, "phone") THEN Raised("KeyError")
        ELSE Wrote("status: OK, phone: " \o Get(result, "phone", None))
    ELSE IF status = "error" THEN
        IF ~Has(result, "phone") \/ ~Has(result, "error_msg") THEN Raised("KeyError")
        ELSE Wrote("status: ERROR, phone: " \o Get(result, "phone", None)
                   \o ", message: " \o Get(result, "error_msg", None))
    ELSE Raised("RuntimeError")

Row(success, phone, error_code, error_msg) ==
    [success |-> success, phone |-> phone,
     error_code |-> error_code, error_msg |-> error_msg]

\* the INSERT statement against the Results table of the DDL:
\* no table -> OperationalError, phone NOT NULL -> IntegrityError
Insert(hasTable, row) ==
    IF ~hasTable THEN Raised("OperationalError")
    ELSE IF row.phone = None THEN Raised("IntegrityError")
    ELSE Wrote(row)

\* a slip: the error branch inserts NULL for the error code
SQLiteLogNoCode(hasTable, response) ==
    LET status == Get(response, "status", None) IN
    IF status = None THEN Raised("ValueError")
    ELSE IF status = "ok" THEN
        IF ~Has(response, "phone") THEN Raised("KeyError")
        ELSE Insert(hasTable, Row(1, Get(response, "phone", None), None, None))
    ELSE IF status = "error" THEN
        IF \E k \in {"phone", "error_code", "error_msg"} : ~Has(response, k)
        THEN Raised("KeyError")
        ELSE Insert(hasTable, Row(0, Get(response, "phone", None), None,
                                  Get(response, "error_msg", None)))
    ELSE Raised("ValueError")

\* SQLiteLoggingMixin._log
SQLiteLog(hasTable, response) ==
    LET status == Get(response, "status", None) IN
    IF status = None THEN Raised("ValueError")
    ELSE IF status = "ok" THEN
        IF ~Has(response, "phone") THEN Raised("KeyError")
        ELSE Insert(hasTable, Row(1, Get(response, "phone", None), None, None))
    ELSE IF status = "error" THEN
        IF \E k \in {"phone", "error_code", "error_msg"} : ~Has(response, k)
        THEN Raised("KeyError")
        ELSE Insert(hasTable, Row(0, Get(response, "phone", None),
                                  Get(response, "error_code", None),
                                  Get(response, "error_msg", None)))
    ELSE Raised("ValueError")

\* the _log the composed class resolves to (the logger is first in the MRO)
Log(logger_name, hasTable, result) ==
    IF logger_name = "sqlite" THEN SQLiteLog(hasTable, result)
    ELSE SimpleLog(result)

\* --------------------------------------------------------------- providers
SMSCRU_request_url == "http://smsc.ru/someapi/message/"
SMSTRAFFIC_request_url == "http://smstraffic.ru/superapi/message/"
SMSTRAFFIC_auth_url == "http://smstraffic.ru/superapi/auth/"

Request(method, url, payload) ==
    [method |-> method, url |-> url, payload |-> payload]

\* a slip: the synthesized record without its error_msg
ErrorOutcomeNoMsg(user_data) ==
    << <<"status", "error">>,
       <<"phone", Get(user_data, "phone", "-")>>,
       <<"error_code", None>> >>

\* the record both providers log when the status code is not 200
ErrorOutcome(user_data) ==
    << <<"status", "error">>,
       <<"phone", Get(user_data, "phone", "-")>>,
       <<"error_code", None>>,
       <<"error_msg", "data: " \o Repr(user_data)>> >>

\* SMSCRU_SMSHandlerMixin.send: the query parameters of the GET
SMSCRU_params(h, user_data) ==
    Update(<< <<"login", h.login>>, <<"psw", h.password>> >>, user_data)

\* SMSTRAFFIC_SMSHandlerMixin.send: the form data of the POST
SMSTRAFFIC_data(h, user_data) ==
    Update(<< <<"token", h.token>> >>, user_data)

SendRequest(h, user_data) ==
    IF h.provider = "smstraffic.ru"
    THEN Request("POST", SMSTRAFFIC_request_url, SMSTRAFFIC_data(h, user_data))
    ELSE Request("GET", SMSCRU_request_url, SMSCRU_params(h, user_data))

\* a slip: the body is decoded and logged whenever it is JSON, whatever the status
SendOutcomeBodyFirst(user_data, status, body) ==
    IF body.json THEN [exc |-> "", logged |-> <<JsonLoads(body)>>]
    ELSE IF status # 200 THEN [exc |-> "", logged |-> <<ErrorOutcome(user_data)>>]
    ELSE [exc |-> "JSONDecodeError", logged |-> <<>>]

\* what send hands to _log: [exc, logged]; a 200 body that is not JSON
\* raises before anything is logged
SendOutcome(user_data, status, body) ==
    IF status # 200 THEN [exc |-> "", logged |-> <<ErrorOutcome(user_data)>>]
    ELSE IF ~body.json THEN [exc |-> "JSONDecodeError", logged |-> <<>>]
    ELSE [exc |-> "", logged |-> <<JsonLoads(body)>>]

\* a slip: the status code of the auth response is not looked at
GetTokenAnyStatus(status, body) ==
    IF ~body.json THEN [exc |-> "JSONDecodeError", token |-> None]
    ELSE IF Get(JsonLoads(body), "token", None) = None
         THEN [exc |-> "RuntimeError", token |-> None]
    ELSE [exc |-> "", token |-> Get(JsonLoads(body), "token", None)]

\* SMSTRAFFIC_SMSHandlerMixin._get_token on the auth response
GetToken(status, body) ==
    IF status # 200 THEN [exc |-> "RuntimeError", token |-> None]
    ELSE IF ~body.json THEN [exc |-> "JSONDecodeError", token |-> None]
    ELSE IF Get(JsonLoads(body), "token", None) = None
         THEN [exc |-> "RuntimeError", token |-> None]
    ELSE [exc |-> "", token |-> Get(JsonLoads(body), "token", None)]

\* ------------------------------------------------------------------ stores
DefaultUri == "file:/tmp/testdb.sqlite?mode=rw"
CreateUri == "file:/tmp/testdb.sqlite?mode=rwc"
MemUri == "file::memory:"
BadUri == "file:/nonexistent/db.sqlite?mode=rw"

FreshDb == [exists |-> TRUE, hasTable |-> FALSE, rows |-> <<>>]

\* sqlite3.connect(db_uri, uri=True): [exc, db, store]
Connect(db_uri, st) ==
    IF db_uri = MemUri
        THEN [exc |-> "", db |-> "mem", store |-> [st EXCEPT !.mem = FreshDb]]
    ELSE IF db_uri = DefaultUri /\ st.file.exists
        THEN [exc |-> "", db |-> "file", store |-> st]
    ELSE IF db_uri = CreateUri
        THEN [exc |-> "", db |-> "file",
              store |-> IF st.file.exists THEN st ELSE [st EXCEPT !.file = FreshDb]]
    ELSE [exc |-> "OperationalError", db |-> "none", store |-> st]

\* ------------------------------------------------------------ construction
NoHandler ==
    [provider |-> "none", logger |-> "none", login |-> None, password |-> None,
     sender |-> None, token |-> None, db_uri |-> None, handle |-> "none"]

Remove(d, k) == SelectSeq(d, LAMBDA p : p[1] # k)

\* a slip: each logging mixin does its own work before calling super().__init__
InitChainHandleFirst(logger_name, handler_name) ==
    (IF logger_name = "sqlite" THEN <<"db_uri", "connect">> ELSE <<"getLogger">>)
    \o (IF handler_name = "none" THEN <<"object">> ELSE <<"BaseSMSHandler">>)
    \o (IF handler_name = "smstraffic.ru" THEN <<"_get_token">> ELSE <<>>)

\* The __init__ chain of the class type(name, (logger, handler, BaseSMSHandler)):
\* each mixin's __init__ calls super().__init__(**kwargs) first and does its
\* own work after that call returns.  The steps, in the order they run.
InitChain(logger_name, handler_name) ==
    (IF logger_name = "sqlite" THEN <<"db_uri">> ELSE <<>>)
    \o (IF handler_name = "none" THEN <<"object">> ELSE <<"BaseSMSHandler">>)
    \o (IF handler_name = "smstraffic.ru" THEN <<"_get_token">> ELSE <<>>)
    \o (IF logger_name = "sqlite" THEN <<"connect">> ELSE <<"getLogger">>)

\* the state of a construction in progress
Building(logger_name, handler_name, kwargs, st) ==
    [exc |-> "", kwargs |-> kwargs, steps |-> <<>>, requests |-> <<>>,
     responses |-> <<>>, store |-> st,
     h |-> [NoHandler EXCEPT !.provider = handler_name, !.logger = logger_name]]

\* one step of the chain; resp is the response an auth request would get
InitStep(b, step, resp) ==
    LET c == [b EXCEPT !.steps = Append(@, step)] IN
    CASE step = "db_uri" ->
            \* SQLiteLoggingMixin.__init__(self, db_uri, **kwargs)
            IF ~Has(b.kwargs, "db_uri") THEN [c EXCEPT !.exc = "TypeError"]
            ELSE [c EXCEPT !.h.db_uri = Get(b.kwargs, "db_uri", None),
                           !.kwargs = Remove(@, "db_uri")]
      [] step = "object" ->
            \* object.__init__(**kwargs)
            IF b.kwargs # <<>> THEN [c EXCEPT !.exc = "TypeError"] ELSE c
      [] step = "BaseSMSHandler" ->
            \* BaseSMSHandler.__init__(self, login, password, sender=None)
            IF \/ ~(DictKeys(b.kwargs) \subseteq {"login", "password", "sender"})
               \/ ~Has(b.kwargs, "login") \/ ~Has(b.kwargs, "password")
            THEN [c EXCEPT !.exc = "TypeError"]
            ELSE [c EXCEPT !.h.login = Get(b.kwargs, "login", None),
                           !.h.password = Get(b.kwargs, "password", None),
                           !.h.sender = Get(b.kwargs, "sender", None)]
      [] step = "_get_token" ->
            \* self.token = self._get_token()
            LET t == GetToken(resp.status, resp.body) IN
            [c EXCEPT !.requests = Append(@, Request("POST", SMSTRAFFIC_auth_url,
                                     << <<"login", b.h.login>>, <<"pass", b.h.password>> >>)),
                      !.responses = Append(@, resp),
                      !.exc = t.exc,
                      !.h.token = t.token]
      [] step = "connect" ->
            \* conn = sqlite3.connect(db_uri, uri=True); self.c = conn.cursor()
            LET k == Connect(b.h.db_uri, b.store) IN
            [c EXCEPT !.exc = k.exc, !.store = k.store,
                      !.h.handle = IF k.exc = "" THEN k.db ELSE @]
      [] OTHER ->
            \* self.logger = logging.getLogger('sms')
            [c EXCEPT !.h.handle = "sms"]

\* run the chain until a step raises
RECURSIVE RunInit(_, _, _)
RunInit(b, chain, resp) ==
    IF chain = <<>> \/ b.exc # "" THEN b
    ELSE RunInit(InitStep(b, Head(chain), resp), Tail(chain), resp)

\* cls(**kwargs)
Construct(logger_name, handler_name, kwargs, st, resp) ==
    RunInit(Building(logger_name, handler_name, kwargs, st),
            InitChain(logger_name, handler_name), resp)

\* ----------------------------------------------------------------- factory
HandlerNames == {"smsr.ru", "smstraffic.ru"}
LoggerNames == {"simple", "sqlite"}

\* the credentials registered with both handlers
AuthData == << <<"login", "login">>, <<"password", "pass">> >>

\* a slip: only the handler lookup is tested
LookupFailsHandlerOnly(handler_name, logger_name) ==
    handler_name \notin HandlerNames

\* handler is None or logger is None
LookupFails(handler_name, logger_name) ==
    handler_name \notin HandlerNames \/ logger_name \notin LoggerNames

\* initial_data of get_handler
InitialData(logger_name, handler_data) ==
    LET hd == IF ~handler_data.given
              THEN (IF logger_name = "sqlite"
                    THEN << <<"db_uri", DefaultUri>> >> ELSE <<>>)
              ELSE handler_data.d
    IN Update(Update(<<>>, AuthData), hd)

\* ------------------------------------------------------------------- state
VARIABLES
    handler,    \* the object the caller holds (NoHandler before the first one)
    store,      \* the SQLite databases: the file /tmp/testdb.sqlite and :memory:
    lines,      \* the lines handed to logging.getLogger('sms').info
    call,       \* the last call: its arguments, what it raised, what it issued
    authLog     \* responses to the auth requests issued for the held object

vars == <<handler, store, lines, call, authLog>>

NoCall ==
    [op |-> "none", handler_name |-> "", logger_name |-> "",
     handler_data |-> NoDict, arg |-> <<>>, exc |-> "", returned |-> FALSE,
     requests |-> <<>>, responses |-> <<>>, logged |-> <<>>, steps |-> <<>>]

NoDb == [exists |-> FALSE, hasTable |-> FALSE, rows |-> <<>>]

\* ------------------------------------------------------------------ inputs
StatusCodes == {200, 500}
Phone == "79149009900"

UserPairs ==
    {<<"phone", Phone>>, <<"login", "evil">>, <<"token", "forged">>}

UserDatas ==
    {d \in UNION {[1..n -> UserPairs] : n \in 0..MaxKeys} :
        \A i, j \in DOMAIN d : d[i][1] = d[j][1] => i = j}

OkOutcome == << <<"status", "ok">>, <<"phone", Phone>> >>
FailOutcome ==
    << <<"status", "error">>, <<"phone", Phone>>,
       <<"error_code", "3500">>, <<"error_msg", "description">> >>
OddOutcome == << <<"status", "sent">>, <<"phone", Phone>> >>

SendBodies == {Text(OkOutcome), Text(FailOutcome), Text(OddOutcome), Text(<<>>), NotJson}

AuthBodies == {Text(<< <<"token", "a">> >>), Text(<<>>), NotJson}

Responses(bodies) == [status : StatusCodes, body : bodies]

\* what the send endpoint may answer: any body with 200, an error page or a
\* stray JSON body with another status
SendResponses ==
    {r \in Responses(SendBodies) :
        r.status # 200 => r.body \in {NotJson, Text(OkOutcome)}}

\* the auth endpoint answers only the provider that calls it
AuthExchanges(handler_name) ==
    IF handler_name = "smstraffic.ru" THEN Responses(AuthBodies)
    ELSE {[status |-> 0, body |-> NotJson]}

HandlerDatas ==
    {NoDict, Dict(<<>>), Dict(<< <<"sender", "acme">> >>),
     Dict(<< <<"db_uri", MemUri>> >>), Dict(<< <<"db_uri", BadUri>> >>)}

\* results passed straight to _log
LogResults ==
    {OkOutcome, FailOutcome, OddOutcome, <<>>, << <<"status", None>> >>,
     << <<"status", "ok">> >>, ErrorOutcome(<<>>)}

Init ==
    /\ handler = NoHandler
    /\ store \in [file : {NoDb, FreshDb, [FreshDb EXCEPT !.hasTable = TRUE]},
                  mem : {NoDb}]
    /\ lines = <<>>
    /\ call = NoCall
    /\ authLog = <<>>

\* the responses to the auth requests among the requests of a call
AuthResponses(c) ==
    LET idx == {i \in DOMAIN c.requests : c.requests[i].url = SMSTRAFFIC_auth_url}
        F[n \in 0..Len(c.requests)] ==
            IF n = 0 THEN <<>>
            ELSE IF n \in idx THEN Append(F[n - 1], c.responses[n]) ELSE F[n - 1]
    IN F[Len(c.requests)]

\* ----------------------------------------------------------------- actions
\* handler = get_handler(handler_name, logger_name, handler_data).  Every call
\* returns a fresh object that shares nothing with an earlier one but the
\* database file; a behaviour follows the first object returned.
GetHandler(handler_name, logger_name, handler_data, resp) ==
    LET args == [NoCall EXCEPT !.op = "get_handler", !.handler_name = handler_name,
                               !.logger_name = logger_name,
                               !.handler_data = handler_data]
    IN
    /\ handler = NoHandler
    /\ IF LookupFails(handler_name, logger_name)
       THEN /\ call' = [args EXCEPT !.exc = "ValueError"]
            /\ UNCHANGED <<handler, store, lines, authLog>>
       ELSE LET b == Construct(logger_name, handler_name,
                               InitialData(logger_name, handler_data), store, resp)
                c == [args EXCEPT !.exc = b.exc, !.returned = (b.exc = ""),
                                  !.requests = b.requests, !.responses = b.responses,
                                  !.steps = b.steps]
            IN /\ call' = c
               /\ store' = b.store
               /\ handler' = IF b.exc = "" THEN b.h ELSE handler
               /\ authLog' = IF b.exc = "" THEN AuthResponses(c) ELSE authLog
               /\ UNCHANGED lines

\* the database the held object's cursor is on
Db == IF handler.handle \in {"file", "mem"} THEN store[handler.handle] ELSE NoDb

Written == Len(lines) + Len(store.file.rows) + Len(store.mem.rows)

\* the effect of one _log call on the log stream and the store
LogEffect(lg) ==
    /\ lines' = IF handler.logger = "sqlite" THEN lines ELSE lines \o lg.out
    /\ store' = IF handler.logger = "sqlite" /\ lg.out # <<>>
                THEN [store EXCEPT ![handler.handle].rows = @ \o lg.out]
                ELSE store

\* handler.send(user_data), the transport answering resp
Send(user_data, resp) ==
    /\ handler.provider \in HandlerNames
    /\ Written < MaxLog
    /\ LET so == SendOutcome(user_data, resp.status, resp.body)
           lg == IF so.exc # "" THEN Raised(so.exc)
                 ELSE Log(handler.logger, Db.hasTable, so.logged[1])
           c == [NoCall EXCEPT !.op = "send", !.arg = user_data, !.exc = lg.exc,
                               !.returned = (lg.exc = ""),
                               !.requests = <<SendRequest(handler, user_data)>>,
                               !.responses = <<resp>>, !.logged = so.logged]
       IN /\ call' = c
          /\ LogEffect(lg)
          /\ authLog' = authLog \o AuthResponses(c)
          /\ UNCHANGED handler

Next ==
    \/ \E hn \in HandlerNames \cup {"a"}, ln \in LoggerNames \cup {"a"},
          hd \in HandlerDatas :
            \E resp \in AuthExchanges(hn) : GetHandler(hn, ln, hd, resp)
    \/ \E ud \in UserDatas, resp \in SendResponses : Send(ud, resp)

Spec == Init /\ [][Next]_vars

\* --------------------------------------------- the logging mixins on their own
\* mixin = SimpleLoggingMixin()
NewSimpleLoggingMixin ==
    LET b == Construct("simple", "none", <<>>, store, [status |-> 0, body |-> NotJson])
    IN /\ handler' = b.h
       /\ call' = [NoCall EXCEPT !.op = "SimpleLoggingMixin", !.returned = TRUE,
                                 !.steps = b.steps]
       /\ UNCHANGED <<store, lines, authLog>>

\* mixin = SQLiteLoggingMixin(db_uri)
NewSQLiteLoggingMixin(db_uri) ==
    LET b == Construct("sqlite", "none", << <<"db_uri", db_uri>> >>, store,
                       [status |-> 0, body |-> NotJson])
    IN /\ call' = [NoCall EXCEPT !.op = "SQLiteLoggingMixin", !.exc = b.exc,
                                 !.returned = (b.exc = ""), !.steps = b.steps]
       /\ handler' = IF b.exc = "" THEN b.h ELSE handler
       /\ store' = b.store
       /\ UNCHANGED <<lines, authLog>>

\* mixin.c.execute(mixin.DDL); mixin.c.connection.commit()
ExecuteDDL ==
    /\ handler.handle \in {"file", "mem"}
    /\ call' = [NoCall EXCEPT !.op = "DDL", !.returned = ~Db.hasTable,
                              !.exc = IF Db.hasTable THEN "OperationalError" ELSE ""]
    /\ store' = [store EXCEPT ![handler.handle].hasTable = TRUE]
    /\ UNCHANGED <<handler, lines, authLog>>

\* mixin._log(result)
LogCall(result) ==
    /\ handler.logger \in LoggerNames
    /\ Written < MaxRows
    /\ LET lg == Log(handler.logger, Db.hasTable, result)
       IN /\ call' = [NoCall EXCEPT !.op = "_log", !.arg = result, !.exc = lg.exc,
                                    !.returned = (lg.exc = ""), !.logged = <<result>>]
          /\ LogEffect(lg)
          /\ UNCHANGED <<handler, authLog>>

NextLog ==
    \/ NewSimpleLoggingMixin
    \/ \E uri \in {MemUri, CreateUri, DefaultUri} : NewSQLiteLoggingMixin(uri)
    \/ ExecuteDDL
    \/ \E r \in LogResults : LogCall(r)

LogSpec == Init /\ [][NextLog]_vars

\* ================================================================== claims
Last(q) == q[Len(q)]

\* the value json.loads gives a member name: that of its last occurrence
LastMember(members, k) ==
    members[CHOOSE i \in DOMAIN members :
                /\ members[i][1] = k
                /\ \A j \in DOMAIN members : members[j][1] = k => j <= i][2]

\* C1: the login and psw parameters of the GET issued by SMSCRU send are the
\* handler's own credentials, whatever user_data contains.
C1_CredentialsNotOverridable ==
    (call.op = "send" /\ handler.provider = "smsr.ru") =>
        LET p == call.requests[1].payload IN
        /\ Get(p, "login", None) = handler.login
        /\ Get(p, "psw", None) = handler.password

\* C2: the token field of the POST issued by SMSTRAFFIC send is the token the
\* handler obtained at construction, whatever user_data contains.
C2_TokenNotForgeable ==
    (call.op = "send" /\ handler.provider = "smstraffic.ru") =>
        Get(call.requests[1].payload, "token", None) = handler.token

\* C3: a send whose response status is not 200 issues one request, does not
\* raise, and hands exactly one outcome with status error to the logger, which
\* records it (for the sqlite logger, given that the Results table exists).
C3_TransportFailureIsData ==
    (/\ call.op = "send"
     /\ call.responses[1].status # 200
     /\ (handler.logger = "sqlite" => Db.hasTable)) =>
        /\ Len(call.requests) = 1
        /\ call.exc = "" /\ call.returned
        /\ Len(call.logged) = 1
        /\ Get(call.logged[1], "status", None) = "error"
        /\ IF handler.logger = "sqlite"
           THEN /\ Db.rows # <<>>
                /\ Last(Db.rows).success = 0
                /\ Last(Db.rows).phone = Get(call.logged[1], "phone", None)
           ELSE /\ lines # <<>>
                /\ Last(lines) = "status: ERROR, phone: "
                                 \o Get(call.logged[1], "phone", None) \o ", message: "
                                 \o Get(call.logged[1], "error_msg", None)

C3_Witness ==
    /\ call.op = "send"
    /\ call.responses[1].status # 200
    /\ handler.provider = "smstraffic.ru"
    /\ handler.logger = "sqlite" /\ Db.hasTable
    /\ call.returned /\ Len(Db.rows) = 1

\* C4: the outcome send hands to the logger depends on the status alone: on
\* 200 it is the decoded body, member for member; otherwise it is the record
\* {status: error, phone: user_data's phone or "-", error_code: None,
\* error_msg: "data: " + str(user_data)}, whatever the body is.
C4_OutcomeByStatus ==
    (call.op = "send") =>
        LET ud == call.arg
            r == call.responses[1]
        IN IF r.status = 200
           THEN IF r.body.json
                THEN /\ Len(call.logged) = 1
                     /\ DictKeys(call.logged[1]) =
                            {r.body.members[i][1] : i \in DOMAIN r.body.members}
                     /\ \A k \in DictKeys(call.logged[1]) :
                            Get(call.logged[1], k, None) = LastMember(r.body.members, k)
                ELSE call.logged = <<>>
           ELSE /\ Len(call.logged) = 1
                /\ DictKeys(call.logged[1]) =
                       {"status", "phone", "error_code", "error_msg"}
                /\ Get(call.logged[1], "status", None) = "error"
                /\ Get(call.logged[1], "phone", None) =
                       (IF Has(ud, "phone") THEN Get(ud, "phone", None) ELSE "-")
                /\ Get(call.logged[1], "error_code", None) = None
                /\ Get(call.logged[1], "error_msg", None) = "data: " \o Repr(ud)

C4_Witness ==
    /\ call.op = "send"
    /\ call.responses[1].status # 200
    /\ call.responses[1].body = Text(OkOutcome)
    /\ call.arg # <<>> /\ ~Has(call.arg, "phone")
    /\ Get(call.logged[1], "phone", None) = "-"

\* C5: every logger raises ValueError for a result whose status is missing or
\* is anything other than ok or error.
C5_SameValidationError ==
    (call.op = "_log" /\ Get(call.arg, "status", None) \notin {"ok", "error"}) =>
        call.exc = "ValueError"

\* C6: get_handler with an unknown handler name or logger name raises
\* ValueError before anything is constructed: nothing is returned, no __init__
\* step runs, no request is issued and no store is touched.
C6_UnknownKeyFailsFirst ==
    [][(/\ call'.op = "get_handler"
        /\ \/ call'.handler_name \notin {"smsr.ru", "smstraffic.ru"}
           \/ call'.logger_name \notin {"simple", "sqlite"}) =>
            /\ call'.exc = "ValueError" /\ ~call'.returned
            /\ call'.requests = <<>> /\ call'.steps = <<>>
            /\ handler' = handler /\ store' = store /\ authLog' = authLog]_vars

C6_Witness ==
    /\ call.op = "get_handler"
    /\ call.handler_name = "smstraffic.ru" /\ call.logger_name = "a"
    /\ call.exc = "ValueError"

AuthSucceeded(c) ==
    c.responses = <<>> \/ GetToken(c.responses[1].status, c.responses[1].body).exc = ""

\* C8: get_handler with the sqlite logger injects the default db_uri whenever
\* handler_data holds no db_uri (omitted, empty, or only other keys) and then
\* returns a handler (the default database file existing, the auth exchange
\* succeeding); a db_uri held by handler_data is used instead of the default.
C8_DefaultStoreLocation ==
    (/\ call.op = "get_handler"
     /\ call.handler_name \in {"smsr.ru", "smstraffic.ru"}
     /\ call.logger_name = "sqlite") =>
        /\ (/\ ~Has(call.handler_data.d, "db_uri")
            /\ store.file.exists
            /\ AuthSucceeded(call)) =>
                /\ call.returned
                /\ handler.db_uri = DefaultUri
                /\ handler.handle = "file"
        /\ (Has(call.handler_data.d, "db_uri") /\ call.returned) =>
                handler.db_uri = Get(call.handler_data.d, "db_uri", None)

ProviderSteps == {"BaseSMSHandler", "_get_token"}
LoggerSteps == {"connect", "getLogger"}

C10_AppendOnlyImage ==
    [][(call'.op = "_log" /\ handler.logger = "sqlite") =>
        LET r == call'.arg
            status == Get(r, "status", None)
            old == store[handler.handle].rows
            new == store'[handler.handle].rows
            complete ==
                IF status = "ok" THEN Has(r, "phone")
                ELSE Has(r, "phone") /\ Has(r, "error_code") /\ Has(r, "error_msg")
        IN /\ handler' = handler
           /\ \A n \in DOMAIN store : n # handler.handle => store'[n] = store[n]
           /\ store'[handler.handle].hasTable = store[handler.handle].hasTable
           /\ IF call'.returned
              THEN /\ status \in {"ok", "error"}
                   /\ new = Append(old,
                        IF status = "ok"
                        THEN [success |-> 1, phone |-> Get(r, "phone", None),
                              error_code |-> None, error_msg |-> None]
                        ELSE [success |-> 0, phone |-> Get(r, "phone", None),
                              error_code |-> Get(r, "error_code", None),
                              error_msg |-> Get(r, "error_msg", None)])
              ELSE new = old
           /\ (status \notin {"ok", "error"}) => ~call'.returned
           /\ (/\ status \in {"ok", "error"} /\ complete
               /\ store[handler.handle].hasTable) => call'.returned]_vars

C10_Witness ==
    /\ call.op = "_log" /\ handler.logger = "sqlite"
    /\ Len(Db.rows) = 2
    /\ Db.rows[1] = [success |-> 1, phone |-> Phone,
                     error_code |-> None, error_msg |-> None]
    /\ Db.rows[2] = [success |-> 0, phone |-> Phone,
                     error_code |-> "3500", error_msg |-> "description"]

====
